---- MODULE Spec2Model ----
(***************************************************************************)
(* The Ralph loop of ai_refactor (src/ai_refactor/ralph_adapter.py):       *)
(* story selection, one iteration on a story, and the loop driver, over a  *)
(* backlog held in memory (prd) and persisted as prd.json (disk).          *)
(*                                                                         *)
(* Python values: an optional value is a sequence, None == << >> and a     *)
(* present value v is << v >>.  A story returned by reference is the       *)
(* index of that story in prd["stories"]; index 0 is None.                 *)
(***************************************************************************)
EXTENDS Integers, Sequences, FiniteSets, TLC

VARIABLES
    prd,        \* the in-memory backlog: [stories, total_iterations]
    disk,       \* the content of prd.json
    pc,         \* position of the running call
    args,       \* the arguments of the running call
    story,      \* the story selected (index in prd.stories, 0 = None)
    result,     \* the pipeline result of the running iteration
    iterations, \* run_ralph_loop's local counter
    raised,     \* whether run_once raised in the running iteration
    save_error, \* whether the last _save_prd of the running call raised
    pre,        \* prd.stories as it was when the iteration's story was selected
    ret         \* what the call returned

vars == <<prd, disk, pc, args, story, result, iterations, raised, save_error, pre, ret>>

(***************************************************************************)
(* Bounds of the drawn inputs.                                             *)
(***************************************************************************)
MaxAttempts == 2    \* attempts of a drawn story: 0..MaxAttempts
MaxCap == 2         \* a drawn attempt cap: None or 0..MaxCap

None == << >>
Some(v) == << v >>
Val(o) == o[1]

\* Python truthiness of an optional integer: None and 0 are falsy.
Truthy(o) == o # None /\ Val(o) # 0

StoryIds == {"US2", "US10"}
Priorities == {"P1", "P2"}
Statuses == {"todo", "in_progress", "fail", "pass"}
Caps == {None} \cup {Some(n) : n \in 0..MaxCap}

Story(id, priority, status, attempts, max_attempts, last_error) ==
    [id |-> id, priority |-> priority, status |-> status, attempts |-> attempts,
     max_attempts |-> max_attempts, last_error |-> last_error]

(***************************************************************************)
(* select_next_story                                                       *)
(***************************************************************************)

\* story.get("max_attempts") or max_attempts_per_story
EffectiveCap(s, max_attempts_per_story) ==
    IF Truthy(s.max_attempts) THEN s.max_attempts ELSE max_attempts_per_story

\* if max_attempts and attempts >= max_attempts
CapReached(s, max_attempts_per_story) ==
    LET max_attempts == EffectiveCap(s, max_attempts_per_story)
    IN  Truthy(max_attempts) /\ s.attempts >= Val(max_attempts)

\* Mutant of Eligible: a passed story is kept whatever `force` says.
EligibleAnyStatus(s, max_attempts_per_story, force) ==
    ~CapReached(s, max_attempts_per_story)

\* Mutant of Eligible: a story that has been started is passed over.
EligibleFreshOnly(s, max_attempts_per_story, force) ==
    /\ s.status = "todo"
    /\ ~CapReached(s, max_attempts_per_story)

\* The two tests a story passes to be returned or kept in `eligible`.
Eligible(s, max_attempts_per_story, force) ==
    /\ ~(s.status = "pass" /\ ~force)
    /\ ~CapReached(s, max_attempts_per_story)

\* Mutant of StatusPriority: a story in progress comes before a fresh one.
StatusPriorityRetryFirst(status) ==
    CASE status = "in_progress" -> 0
      [] status = "todo" -> 1
      [] status = "fail" -> 2
      [] status = "pass" -> 3
      [] OTHER -> 99

StatusPriority(status) ==
    CASE status = "todo" -> 0
      [] status = "in_progress" -> 1
      [] status = "fail" -> 2
      [] status = "pass" -> 3
      [] OTHER -> 99

\* int(priority[1:]) if priority.startswith("P") and priority[1:].isdigit() else 99
PriorityNum(priority) ==
    CASE priority = "P1" -> 1
      [] priority = "P2" -> 2
      [] priority = "P3" -> 3
      [] priority = "P4" -> 4
      [] priority = "P5" -> 5
      [] priority = "P9" -> 9
      [] OTHER -> 99

\* re.match(r"US(\d+)", story_id): the number after "US", else 9999
IdNum(id) ==
    CASE id = "US1" -> 1
      [] id = "US2" -> 2
      [] id = "US3" -> 3
      [] id = "US10" -> 10
      [] OTHER -> 9999

sort_key(s) ==
    <<StatusPriority(s.status), PriorityNum(s.priority), IdNum(s.id), s.attempts>>

\* Python's order on tuples of integers of the same length.
RECURSIVE TupleLess(_, _)
TupleLess(a, b) ==
    IF a = << >> THEN FALSE
    ELSE IF Head(a) # Head(b) THEN Head(a) < Head(b)
    ELSE TupleLess(Tail(a), Tail(b))

\* list.sort(key=sort_key) on a list of story indexes: stable.
RECURSIVE InsertSorted(_, _, _)
InsertSorted(stories, i, sorted) ==
    IF sorted = << >> THEN << i >>
    ELSE IF TupleLess(sort_key(stories[i]), sort_key(stories[Head(sorted)]))
         THEN << i >> \o sorted
         ELSE << Head(sorted) >> \o InsertSorted(stories, i, Tail(sorted))

RECURSIVE SortByKey(_, _)
SortByKey(stories, idxs) ==
    IF idxs = << >> THEN << >>
    ELSE InsertSorted(stories, idxs[Len(idxs)],
                      SortByKey(stories, SubSeq(idxs, 1, Len(idxs) - 1)))

\* The indexes 1..n of the stories that pass the filter, in list order.
RECURSIVE EligibleIdxs(_, _, _, _)
EligibleIdxs(stories, n, max_attempts_per_story, force) ==
    IF n = 0 THEN << >>
    ELSE LET rest == EligibleIdxs(stories, n - 1, max_attempts_per_story, force)
         IN  IF Eligible(stories[n], max_attempts_per_story, force)
             THEN Append(rest, n) ELSE rest

\* for story in stories: if story.get("id") == target_story_id: ... return
FindTarget(stories, target_story_id, max_attempts_per_story, force) ==
    LET hits == {i \in 1..Len(stories) : stories[i].id = Val(target_story_id)}
    IN  IF hits = {} THEN 0
        ELSE LET i == CHOOSE h \in hits : \A g \in hits : h <= g
             IN  IF Eligible(stories[i], max_attempts_per_story, force) THEN i ELSE 0

\* Mutant of select_next_story: the story returned by the previous call is
\* passed over when another one can be returned.
select_next_story_rotating(stories, max_attempts_per_story, target_story_id, force) ==
    LET eligible == EligibleIdxs(stories, Len(stories),
                                 max_attempts_per_story, force)
        others == SelectSeq(eligible, LAMBDA i : i # story)
    IN  IF others # << >> THEN Head(SortByKey(stories, others))
        ELSE IF eligible # << >> THEN Head(eligible)
        ELSE 0

select_next_story(stories, max_attempts_per_story, target_story_id, force) ==
    IF stories = << >> THEN 0
    ELSE IF target_story_id # None
         THEN FindTarget(stories, target_story_id, max_attempts_per_story, force)
         ELSE LET eligible == EligibleIdxs(stories, Len(stories),
                                           max_attempts_per_story, force)
              IN  IF eligible = << >> THEN 0
                  ELSE Head(SortByKey(stories, eligible))

(***************************************************************************)
(* SpecSelect: select_next_story called on a drawn backlog with drawn      *)
(* arguments.                                                              *)
(***************************************************************************)
DrawnStories(id) ==
    {Story(id, p, st, a, m, None) :
        p \in Priorities, st \in Statuses, a \in 0..MaxAttempts, m \in Caps}

\* Backlogs of stories with distinct ids, in any order.
DrawnBacklogs ==
    {<< >>}
    \cup {<< s >> : s \in UNION {DrawnStories(id) : id \in StoryIds}}
    \cup UNION {{<< s, t >> : s \in DrawnStories(ids[1]), t \in DrawnStories(ids[2])} :
                   ids \in {x \in StoryIds \X StoryIds : x[1] # x[2]}}

Targets == {None} \cup {Some(id) : id \in StoryIds}

NoArgs == [max_attempts_per_story |-> None, target_story_id |-> None,
           force |-> FALSE, mode |-> "none", max_iterations |-> None]
NoResult == [decision |-> None, tests_ok |-> None, error |-> None,
             critic_reason |-> None]
NoRet == [kind |-> "none"]
File(data) == [valid |-> TRUE, data |-> data, problem |-> "none"]

InitSelect ==
    /\ prd \in {[stories |-> b, total_iterations |-> 0] : b \in DrawnBacklogs}
    /\ disk = File(prd)
    /\ pc = "call"
    /\ args = NoArgs
    /\ story = 0
    /\ result = NoResult
    /\ iterations = 0
    /\ raised = FALSE
    /\ save_error = FALSE
    /\ pre = prd.stories
    /\ ret = NoRet

CallSelect ==
    /\ pc = "call"
    /\ \E cap \in Caps, target \in Targets, force \in BOOLEAN :
         /\ args' = [NoArgs EXCEPT !.max_attempts_per_story = cap,
                                   !.target_story_id = target,
                                   !.force = force]
         /\ story' = select_next_story(prd.stories, cap, target, force)
    /\ pc' = "returned"
    /\ UNCHANGED <<prd, disk, result, iterations, raised, save_error, pre, ret>>

NextSelect == CallSelect

SpecSelect == InitSelect /\ [][NextSelect]_vars

\* SpecRepeat: select_next_story called a second time with the arguments of
\* the first call on the same backlog; ret keeps what the first call returned.
CallAgain ==
    /\ pc = "returned"
    /\ ret' = [kind |-> "selected", story |-> story]
    /\ story' = select_next_story(prd.stories, args.max_attempts_per_story,
                                  args.target_story_id, args.force)
    /\ pc' = "again"
    /\ UNCHANGED <<prd, disk, args, result, iterations, raised, save_error, pre>>

NextRepeat ==
    \/ CallSelect
    \/ CallAgain

SpecRepeat == InitSelect /\ [][NextRepeat]_vars

(***************************************************************************)
(* update_story_after_attempt                                              *)
(***************************************************************************)
\* dict.get(key, default) on an optional field
GetOr(o, default) == IF o = None THEN default ELSE Val(o)

\* Mutant of IsSuccess: the tests' outcome is not consulted.
IsSuccessShipOnly(r) == r.decision = Some("SHIP")

\* result.get("decision") == "SHIP" and result.get("tests_ok", False)
IsSuccess(r) == r.decision = Some("SHIP") /\ GetOr(r.tests_ok, FALSE)

\* The error message of an unsuccessful result (lines 248-260).
\* Mutant of ErrorMsg: the decision is reported before an explicit error.
ErrorMsgDecisionFirst(r) ==
    IF r.decision # Some("SHIP")
    THEN "Agent decision: " \o GetOr(r.decision, "UNKNOWN")
    ELSE IF r.error # None THEN Val(r.error)
    ELSE IF ~GetOr(r.tests_ok, TRUE) THEN "Tests failed"
    ELSE "Unknown error"

\* `if not error_msg`, `if critic_reason`: None and "" are both falsy.
NonEmpty(o) == o # None /\ Val(o) # ""

ErrorMsg(r) ==
    IF NonEmpty(r.error) THEN Val(r.error)
    ELSE IF r.decision # Some("SHIP")
         THEN IF NonEmpty(r.critic_reason)
              THEN "Agent decision: " \o GetOr(r.decision, "UNKNOWN") \o " - "
                       \o Val(r.critic_reason)
              ELSE "Agent decision: " \o GetOr(r.decision, "UNKNOWN")
         ELSE IF ~GetOr(r.tests_ok, TRUE) THEN "Tests failed"
         ELSE "Unknown error"

update_story_after_attempt(s, r, max_attempts) ==
    LET attempts == s.attempts + 1
    IN  IF IsSuccess(r)
        THEN [s EXCEPT !.attempts = attempts, !.status = "pass", !.last_error = None]
        ELSE [s EXCEPT !.attempts = attempts,
                       !.last_error = Some(ErrorMsg(r)),
                       !.status = IF Truthy(max_attempts) /\ attempts >= Val(max_attempts)
                                  THEN "fail" ELSE "in_progress"]

(***************************************************************************)
(* _save_prd and load_prd                                                  *)
(***************************************************************************)
EmptyPrd == [stories |-> << >>, total_iterations |-> 0]
\* What can be wrong with prd.json when load_prd reads it.
Problems == {"missing", "invalid JSON", "no stories", "no context"}
Broken(problem) == [valid |-> FALSE, data |-> EmptyPrd, problem |-> problem]
\* A write that failed half-way leaves a truncated file: not valid JSON.
Corrupt == Broken("invalid JSON")

\* Mutant of load_prd: the 'context' field is not required.
load_prd_no_context_check(file) ==
    IF file.problem = "missing"
    THEN [ok |-> FALSE, data |-> EmptyPrd, error |-> "PRD file not found"]
    ELSE IF file.problem = "invalid JSON"
    THEN [ok |-> FALSE, data |-> EmptyPrd, error |-> "Invalid JSON in PRD file"]
    ELSE IF file.problem = "no stories"
    THEN [ok |-> FALSE, data |-> EmptyPrd,
          error |-> "PRD missing required field 'stories'"]
    ELSE [ok |-> TRUE, data |-> file.data, error |-> ""]

\* load_prd (lines 26-62): the data of the file, or the exception it raises.
load_prd(file) ==
    IF file.problem = "missing"
    THEN [ok |-> FALSE, data |-> EmptyPrd, error |-> "PRD file not found"]
    ELSE IF file.problem = "invalid JSON"
    THEN [ok |-> FALSE, data |-> EmptyPrd, error |-> "Invalid JSON in PRD file"]
    ELSE IF file.problem = "no stories"
    THEN [ok |-> FALSE, data |-> EmptyPrd,
          error |-> "PRD missing required field 'stories'"]
    ELSE IF file.problem = "no context"
    THEN [ok |-> FALSE, data |-> EmptyPrd,
          error |-> "PRD missing required field 'context'"]
    ELSE [ok |-> TRUE, data |-> file.data, error |-> ""]

\* Mutant of _save_prd: a failing write is swallowed, the call returns normally.
_save_prd_swallowed(file, data) ==
    {[ok |-> TRUE, disk |-> File(data)],
     [ok |-> TRUE, disk |-> file],
     [ok |-> TRUE, disk |-> Corrupt]}

\* open(prd_path, "w") and json.dump: the file is written, or the call raises
\* with the file untouched (open failed) or truncated (the write failed).
_save_prd(file, data) ==
    {[ok |-> TRUE, disk |-> File(data)],
     [ok |-> FALSE, disk |-> file],
     [ok |-> FALSE, disk |-> Corrupt]}

(***************************************************************************)
(* run_ralph_iteration                                                     *)
(***************************************************************************)
\* Mutant of MarkInProgress: the attempt is not counted at entry.
MarkInProgressUncounted(s) == [s EXCEPT !.status = "in_progress"]

\* Mutant of MarkInProgress: the story is also raised to the top priority.
MarkInProgressPromoted(s) ==
    [s EXCEPT !.status = "in_progress", !.attempts = @ + 1, !.priority = "P1"]

\* story["status"] = "in_progress"; story["attempts"] += 1   (lines 332-335)
MarkInProgress(s) == [s EXCEPT !.status = "in_progress", !.attempts = @ + 1]

\* Mutant of CaughtResult: the exception's text is left out of the result.
CaughtResultNoError(e) ==
    [decision |-> Some("ERROR"), tests_ok |-> Some(FALSE),
     error |-> None, critic_reason |-> None]

\* The result built when run_once raises (lines 379-385).
CaughtResult(e) ==
    [decision |-> Some("ERROR"), tests_ok |-> Some(FALSE),
     error |-> Some("Exception: " \o e), critic_reason |-> None]

\* Entry: mark the story, save the backlog.  A failing save is not caught:
\* the exception leaves run_ralph_iteration and run_ralph_loop.
IterEntry ==
    /\ pc = "entry"
    /\ prd' = [prd EXCEPT !.stories[story] = MarkInProgress(@)]
    /\ \E o \in _save_prd(disk, prd') :
         /\ disk' = o.disk
         /\ save_error' = ~o.ok
         /\ pc' = IF o.ok THEN "pipeline" ELSE "aborted"
         /\ ret' = IF o.ok THEN ret ELSE [kind |-> "exception"]
    /\ UNCHANGED <<args, story, result, iterations, raised, pre>>

\* run_once returns one of `results`, or raises and the exception is caught.
Pipeline(results) ==
    /\ pc = "pipeline"
    /\ \/ \E r \in results : result' = r /\ raised' = FALSE
       \/ result' = CaughtResult("boom") /\ raised' = TRUE
    /\ pc' = "update"
    /\ UNCHANGED <<prd, disk, args, story, iterations, save_error, pre, ret>>

\* Mutant of SaveLogged: a failing save raises out of the caller.
SaveRaising(o, next) == IF o.ok THEN next ELSE "aborted"

\* try: _save_prd(...) except Exception: logger.error(...): whatever the
\* outcome `o` of the save, the caller goes on to `next`.
SaveLogged(o, next) == next

\* Post-execution: update the story, save (a failing save is logged), return
\* the iteration result.
IterFinish ==
    /\ pc = "update"
    /\ LET max_attempts == EffectiveCap(prd.stories[story], args.max_attempts_per_story)
       IN  prd' = [prd EXCEPT !.stories[story] =
                       update_story_after_attempt(@, result, max_attempts)]
    /\ \E o \in _save_prd(disk, prd') :
         /\ disk' = o.disk
         /\ save_error' = ~o.ok
         /\ pc' = SaveLogged(o, "iterated")
    /\ ret' = [kind |-> "iteration",
               story_id |-> prd.stories[story].id,
               attempt |-> prd'.stories[story].attempts,
               result |-> result,
               status |-> prd'.stories[story].status]
    /\ UNCHANGED <<args, story, result, iterations, raised, pre>>

(***************************************************************************)
(* run_ralph_loop                                                          *)
(***************************************************************************)
MaxIter == 2          \* a drawn --max-iterations: None or 0..MaxIter
AttemptsBound == 2    \* the model stops selecting a story with more attempts

CountStatus(stories, status) ==
    Cardinality({i \in 1..Len(stories) : stories[i].status = status})

\* Mutant of Summary: a story in progress is counted as todo.
SummaryInProgressAsTodo(stories, n) ==
    [kind |-> "summary",
     iterations |-> n,
     stories_total |-> Len(stories),
     stories_pass |-> CountStatus(stories, "pass"),
     stories_fail |-> CountStatus(stories, "fail"),
     stories_todo |-> CountStatus(stories, "todo")
                          + CountStatus(stories, "in_progress"),
     stories_in_progress |-> 0]

\* The summary of lines 519-529.
Summary(stories, n) ==
    [kind |-> "summary",
     iterations |-> n,
     stories_total |-> Len(stories),
     stories_pass |-> CountStatus(stories, "pass"),
     stories_fail |-> CountStatus(stories, "fail"),
     stories_todo |-> CountStatus(stories, "todo"),
     stories_in_progress |-> CountStatus(stories, "in_progress")]

\* The summary returned when initialization fails (lines 455-464).
InitError(error) ==
    [kind |-> "error", error |-> error, iterations |-> 0, stories_total |-> 0,
     stories_pass |-> 0, stories_fail |-> 0]

\* max_attempts set by hand on a story of prd.json
StoryCaps == {None, Some(0), Some(MaxCap + 1)}

\* The arguments main() passes: --story-id is refused with --mode loop.
LoopArgs ==
    {a \in [max_attempts_per_story : {None, Some(MaxCap + 1)},
            target_story_id : {None, Some("US2")},
            force : BOOLEAN,
            mode : {"once", "loop"},
            max_iterations : {None, Some(0), Some(MaxIter)}] :
        a.target_story_id # None => a.mode = "once"}

Stopped == {"idle", "exited", "aborted", "killed"}
Running == {"loop", "entry", "pipeline", "update", "iterated", "summary"}

\* Lines 444-472: load the backlog, or return the error summary.
Load ==
    /\ pc \in Stopped
    /\ \E a \in LoopArgs : args' = a
    /\ LET loaded == load_prd(disk)
       IN  IF loaded.ok
           THEN /\ prd' = loaded.data
                /\ pc' = "loop"
                /\ ret' = NoRet
           ELSE /\ prd' = EmptyPrd
                /\ pc' = "done"
                /\ ret' = InitError(loaded.error)
    /\ iterations' = 0
    /\ story' = 0
    /\ result' = NoResult
    /\ raised' = FALSE
    /\ save_error' = FALSE
    /\ pre' = prd'.stories
    /\ UNCHANGED disk

\* Mutant of IterationCapReached: the loop stops one pass too late.
IterationCapPassed(max_iterations, n) ==
    max_iterations # None /\ n > Val(max_iterations)

\* max_iterations is not None and iterations >= max_iterations   (line 476)
IterationCapReached(max_iterations, n) ==
    max_iterations # None /\ n >= Val(max_iterations)

\* Lines 474-493: the iteration cap, then the selection.  The model follows
\* a story only while its attempts are within `bound`.
LoopPass(bound) ==
    /\ pc = "loop"
    /\ IF IterationCapReached(args.max_iterations, iterations)
       THEN pc' = "summary" /\ UNCHANGED <<story, pre>>
       ELSE LET s == select_next_story(prd.stories, args.max_attempts_per_story,
                                       args.target_story_id, args.force)
            IN  IF s = 0
                THEN pc' = "summary" /\ UNCHANGED <<story, pre>>
                ELSE /\ prd.stories[s].attempts <= bound
                     /\ story' = s
                     /\ pre' = prd.stories
                     /\ pc' = "entry"
    /\ UNCHANGED <<prd, disk, args, result, iterations, raised, save_error, ret>>

LoopHead == LoopPass(AttemptsBound)

\* Lines 508-517: count the iteration; single-shot mode leaves the loop.
LoopAdvance ==
    /\ pc = "iterated"
    /\ iterations' = iterations + 1
    /\ prd' = [prd EXCEPT !.total_iterations = iterations']
    /\ pc' = IF args.mode = "once" THEN "summary" ELSE "loop"
    /\ story' = 0
    /\ result' = NoResult
    /\ raised' = FALSE
    /\ save_error' = FALSE
    /\ pre' = prd.stories
    /\ ret' = NoRet
    /\ UNCHANGED <<disk, args>>

\* Lines 519-537: the summary and the final save (a failing save is logged).
Summarize ==
    /\ pc = "summary"
    /\ ret' = Summary(prd.stories, iterations)
    /\ \E o \in _save_prd(disk, prd) :
         /\ disk' = o.disk
         /\ save_error' = ~o.ok
         /\ pc' = SaveLogged(o, "done")
    /\ UNCHANGED <<prd, args, story, result, iterations, raised, pre>>

\* if result["stories_fail"] > 0: sys.exit(1); sys.exit(0)   (lines 652-654)
ExitCode(summary) == IF summary.stories_fail > 0 THEN 1 ELSE 0

\* main, lines 626-654: print the summary run_ralph_loop returned and exit.
Exit ==
    /\ pc = "done"
    /\ pc' = "exited"
    /\ ret' = [kind |-> "exit", code |-> ExitCode(ret), summary |-> ret]
    /\ UNCHANGED <<prd, disk, args, story, result, iterations, raised,
                   save_error, pre>>

\* The process is killed while the loop runs: only prd.json survives.  The
\* model remembers where the run was killed, its arguments, the story in
\* flight and the stories as they were before the iteration.
Interrupt ==
    /\ pc \in Running
    /\ pc' = "killed"
    /\ prd' = EmptyPrd
    /\ result' = NoResult
    /\ iterations' = 0
    /\ raised' = FALSE
    /\ save_error' = FALSE
    /\ ret' = [kind |-> "killed", at |-> pc]
    /\ UNCHANGED <<disk, args, story, pre>>

\* The results run_once returns in the loop runs.
LoopResults ==
    {[decision |-> Some("SHIP"), tests_ok |-> Some(TRUE), error |-> None,
      critic_reason |-> None],
     [decision |-> Some("REVISE"), tests_ok |-> Some(FALSE), error |-> None,
      critic_reason |-> Some("off-by-one in loop bound")]}

\* A backlog as generate_prd writes it: stories todo, no attempts, sorted by
\* priority then number; max_attempts is set by hand in prd.json.
FreshStory(id, priority, max_attempts) ==
    Story(id, priority, "todo", 0, max_attempts, None)

FreshBacklogs ==
    {<<FreshStory("US2", "P1", m)>> : m \in StoryCaps}
    \cup {<<FreshStory("US2", "P1", None), FreshStory("US10", "P2", None)>>}

Init ==
    /\ prd = EmptyPrd
    /\ disk \in {File([stories |-> b, total_iterations |-> 0]) : b \in FreshBacklogs}
                \cup {Broken(p) : p \in Problems}
    /\ pc = "idle"
    /\ args = NoArgs
    /\ story = 0
    /\ result = NoResult
    /\ iterations = 0
    /\ raised = FALSE
    /\ save_error = FALSE
    /\ pre = << >>
    /\ ret = NoRet

RunOnce == Pipeline(LoopResults)

Next ==
    \/ Load
    \/ LoopHead
    \/ IterEntry
    \/ RunOnce
    \/ IterFinish
    \/ LoopAdvance
    \/ Summarize
    \/ Exit
    \/ Interrupt

Spec == Init /\ [][Next]_vars

(***************************************************************************)
(* SpecIter: run_ralph_iteration called on a drawn story with a drawn      *)
(* global cap, the pipeline returning any result or raising.               *)
(***************************************************************************)
Decisions == {"SHIP", "REVISE", "NO_CHANGES", "ERROR"}

AllResults ==
    [decision : {None} \cup {Some(d) : d \in Decisions},
     tests_ok : {None, Some(TRUE), Some(FALSE)},
     error : {None, Some("Failed to commit: x")},
     critic_reason : {None, Some("off-by-one in loop bound")}]

IterCaps == {None} \cup {Some(n) : n \in 0..(MaxCap + 1)}

IterStories ==
    {Story("US2", "P1", st, a, m, e) :
        st \in Statuses, a \in 0..(MaxAttempts + 1), m \in IterCaps,
        e \in {None, Some("Tests failed")}}

InitIter ==
    /\ prd \in {[stories |-> << s >>, total_iterations |-> 0] : s \in IterStories}
    /\ disk = File(prd)
    /\ pc = "entry"
    /\ args \in {[NoArgs EXCEPT !.max_attempts_per_story = cap, !.mode = "once"] :
                    cap \in IterCaps}
    /\ story = 1
    /\ result = NoResult
    /\ iterations = 0
    /\ raised = FALSE
    /\ save_error = FALSE
    /\ pre = prd.stories
    /\ ret = NoRet

RunOnceAny == Pipeline(AllResults)

NextIter ==
    \/ IterEntry
    \/ RunOnceAny
    \/ IterFinish

SpecIter == InitIter /\ [][NextIter]_vars

(***************************************************************************)
(* run_aider (src/ai_refactor/aider_bridge.py) and the stage of run_once   *)
(* (src/ai_refactor/workflow.py) that calls it.                            *)
(***************************************************************************)
AiderTimeout == 300     \* timeout = 300, in seconds
ExitTimeout == 124      \* the code run_aider returns after the kill
ExitNotFound == 127     \* the shell's "command not found"

\* What the coding subprocess does when left alone: it cannot be started,
\* or it runs for `duration` seconds and exits with `exit_code`; or run_once
\* raises before it calls run_aider.
AiderRuns ==
    {[how |-> "runs", duration |-> d, exit_code |-> c] :
        d \in {0, AiderTimeout, AiderTimeout + 1},
        c \in {0, 1, ExitTimeout, ExitNotFound}}
    \cup {[how |-> h, duration |-> 0, exit_code |-> 0] :
             h \in {"popen fails", "run_once raises"}}

\* Mutant of run_aider: after the ceiling the loop returns without a kill.
run_aider_no_kill(run) ==
    IF run.how # "runs" THEN [exit_code |-> 1, group_killed |-> FALSE]
    ELSE IF run.duration > AiderTimeout
         THEN [exit_code |-> ExitTimeout, group_killed |-> FALSE]
         ELSE [exit_code |-> run.exit_code, group_killed |-> FALSE]

\* run_aider: the exit code returned, and whether os.killpg(..., SIGKILL)
\* was sent to the process group of the subprocess (its own group, by
\* start_new_session=True).  A failure of the bridge returns 1.
run_aider(run) ==
    IF run.how # "runs" THEN [exit_code |-> 1, group_killed |-> FALSE]
    ELSE IF run.duration > AiderTimeout
         THEN [exit_code |-> ExitTimeout, group_killed |-> TRUE]
         ELSE [exit_code |-> run.exit_code, group_killed |-> FALSE]

ErrorResult(error) ==
    [decision |-> Some("ERROR"), tests_ok |-> Some(FALSE),
     error |-> Some(error), critic_reason |-> None]

TimeoutText ==
    "Aider execution timed out after 5 minutes. Check model response time or context length."
NotFoundText ==
    "Aider command not found. Please install it via 'pipx install aider-chat'."

\* run_once, lines 277-310: the result returned right after run_aider, or
\* None when run_once goes on to the tests and the review.
AiderStage(aider_exit_code) ==
    IF aider_exit_code = ExitTimeout THEN Some(ErrorResult(TimeoutText))
    ELSE IF aider_exit_code = ExitNotFound THEN Some(ErrorResult(NotFoundText))
    ELSE None

(***************************************************************************)
(* SpecAider: run_ralph_iteration on a drawn story, with run_once's call   *)
(* of run_aider on a drawn behaviour of the subprocess (args.aider).       *)
(***************************************************************************)
InitAider ==
    /\ prd \in {[stories |-> << s >>, total_iterations |-> 0] : s \in IterStories}
    /\ disk = File(prd)
    /\ pc = "entry"
    /\ args \in {[max_attempts_per_story |-> cap, target_story_id |-> None,
                  force |-> FALSE, mode |-> "once", max_iterations |-> None,
                  aider |-> run] : cap \in IterCaps, run \in AiderRuns}
    /\ story = 1
    /\ result = NoResult
    /\ iterations = 0
    /\ raised = FALSE
    /\ save_error = FALSE
    /\ pre = prd.stories
    /\ ret = NoRet

\* run_once up to the return of run_aider; an exception before the call is
\* caught by run_once (lines 303-310).
RunAider ==
    /\ pc = "pipeline"
    /\ IF args.aider.how = "run_once raises"
       THEN /\ result' = ErrorResult("Aider execution failed: boom")
            /\ pc' = "update"
            /\ ret' = ret
       ELSE /\ ret' = [kind |-> "aider",
                       exit_code |-> run_aider(args.aider).exit_code,
                       group_killed |-> run_aider(args.aider).group_killed]
            /\ pc' = "aider"
            /\ result' = result
    /\ UNCHANGED <<prd, disk, args, story, iterations, raised, save_error, pre>>

\* run_once after run_aider: the error result of the stage, or the result of
\* the later stages.
RunOnceRest ==
    /\ pc = "aider"
    /\ IF AiderStage(ret.exit_code) # None
       THEN result' = Val(AiderStage(ret.exit_code))
       ELSE \E r \in LoopResults : result' = r
    /\ pc' = "update"
    /\ UNCHANGED <<prd, disk, args, story, iterations, raised, save_error, pre, ret>>

NextAider ==
    \/ IterEntry
    \/ RunAider
    \/ RunOnceRest
    \/ IterFinish

SpecAider == InitAider /\ [][NextAider]_vars

(***************************************************************************)
(* run_once after the coding stage (src/ai_refactor/workflow.py, lines     *)
(* 311-410): tests, diff, review, commit.  `run` says what the             *)
(* collaborators do when called.                                           *)
(***************************************************************************)
OnceRuns ==
    [skip_tests : BOOLEAN,
     tests : {"pass", "fail", "raises"},
     diff : {"raises", "empty", "changes"},
     use_agents : BOOLEAN,
     review : {"SHIP", "REVISE", "raises"},
     auto_commit : BOOLEAN,
     commit : {"ok", "raises"}]

\* Lines 311-330: tests_ok; skipped tests count as passed, a raising test
\* run as failed.
TestStage(run) == run.skip_tests \/ run.tests = "pass"

\* Mutant of ReviewStage: a review that raises counts as REVISE.
ReviewStageFailClosed(run) ==
    IF ~run.use_agents \/ run.review = "SHIP"
    THEN [decision |-> "SHIP", critic_reason |-> None]
    ELSE IF run.review = "REVISE"
    THEN [decision |-> "REVISE", critic_reason |-> Some("off-by-one in loop bound")]
    ELSE [decision |-> "REVISE", critic_reason |-> Some("review failed")]

\* Lines 350-373: decision and critic_reason; SHIP without agents, SHIP
\* when critic_review raises.
ReviewStage(run) ==
    IF ~run.use_agents THEN [decision |-> "SHIP", critic_reason |-> None]
    ELSE IF run.review = "REVISE"
    THEN [decision |-> "REVISE", critic_reason |-> Some("off-by-one in loop bound")]
    ELSE [decision |-> "SHIP", critic_reason |-> None]

\* Lines 311-410: the result returned and whether commit_changes completed.
\* A key the returned dict does not have reads as None.
run_once_stages(run) ==
    LET tests_ok == TestStage(run)
        review == ReviewStage(run)
    IN  IF run.diff = "raises"
        THEN [result |-> [decision |-> Some("ERROR"), tests_ok |-> Some(tests_ok),
                          error |-> Some("Failed to get git diff: boom"),
                          critic_reason |-> None],
              committed |-> FALSE]
        ELSE IF run.diff = "empty"
        THEN [result |-> [decision |-> Some("NO_CHANGES"),
                          tests_ok |-> Some(tests_ok),
                          error |-> None, critic_reason |-> None],
              committed |-> FALSE]
        ELSE IF review.decision = "SHIP" /\ tests_ok /\ run.auto_commit
                  /\ run.commit = "raises"
        THEN [result |-> [decision |-> Some(review.decision),
                          tests_ok |-> Some(tests_ok),
                          error |-> Some("Failed to commit: boom"),
                          critic_reason |-> None],
              committed |-> FALSE]
        ELSE [result |-> [decision |-> Some(review.decision),
                          tests_ok |-> Some(tests_ok),
                          error |-> None,
                          critic_reason |-> review.critic_reason],
              committed |-> review.decision = "SHIP" /\ tests_ok
                                /\ run.auto_commit]

(***************************************************************************)
(* SpecOnce: run_ralph_iteration on a drawn story, with run_once's stages  *)
(* after the coding stage on drawn behaviours of the tests, the diff, the  *)
(* review and the commit (args.once).                                      *)
(***************************************************************************)
OnceStories ==
    {Story("US2", "P1", st, a, None, e) :
        st \in Statuses, a \in 0..MaxAttempts, e \in {None, Some("Tests failed")}}

InitOnce ==
    /\ prd \in {[stories |-> << s >>, total_iterations |-> 0] : s \in OnceStories}
    /\ disk = File(prd)
    /\ pc = "entry"
    /\ args \in {[max_attempts_per_story |-> cap, target_story_id |-> None,
                  force |-> FALSE, mode |-> "once", max_iterations |-> None,
                  once |-> run] : cap \in IterCaps, run \in OnceRuns}
    /\ story = 1
    /\ result = NoResult
    /\ iterations = 0
    /\ raised = FALSE
    /\ save_error = FALSE
    /\ pre = prd.stories
    /\ ret = NoRet

\* run_once from the tests to its return.
RunOnceStages ==
    /\ pc = "pipeline"
    /\ result' = run_once_stages(args.once).result
    /\ ret' = [kind |-> "run_once",
               committed |-> run_once_stages(args.once).committed]
    /\ pc' = "update"
    /\ UNCHANGED <<prd, disk, args, story, iterations, raised, save_error, pre>>

NextOnce ==
    \/ IterEntry
    \/ RunOnceStages
    \/ IterFinish

SpecOnce == InitOnce /\ [][NextOnce]_vars

(***************************************************************************)
(* SpecTerm: one call of run_ralph_loop from a backlog as generate_prd     *)
(* writes it, not killed.  The code is sequential: a step that can be      *)
(* taken is taken, which is the weak fairness of NextTerm.                 *)
(***************************************************************************)
\* Attempts grow by two per iteration; a run that stops by max_iterations
\* or by a story's cap never selects a story above this bound.
TermBound == 2 * MaxIter + MaxCap + 1

LoadFresh == pc = "idle" /\ Load

LoopHeadTerm == LoopPass(TermBound)

NextTerm ==
    \/ LoadFresh
    \/ LoopHeadTerm
    \/ IterEntry
    \/ RunOnce
    \/ IterFinish
    \/ LoopAdvance
    \/ Summarize

SpecTerm == Init /\ [][NextTerm]_vars /\ WF_vars(NextTerm)

(***************************************************************************)
(* generate_prd (src/ai_refactor/prd_generator.py): the merge of the user  *)
(* stories extracted from spec.md into the stories of prd.json.            *)
(***************************************************************************)
\* title, description and independent_test as spec.md gives them
Texts ==
    {[title |-> "Login", description |-> "As a user I log in",
      independent_test |-> "Log in once"],
     [title |-> "Sign in", description |-> "As a member I sign in",
      independent_test |-> "Sign in once"]}

OldText == CHOOSE t \in Texts : t.title = "Login"

\* UserStorySpec (lines 10-22)
UserStorySpec(id, text, priority, acceptance_scenarios) ==
    [id |-> id, title |-> text.title, description |-> text.description,
     priority |-> priority, acceptance_scenarios |-> acceptance_scenarios,
     independent_test |-> text.independent_test]

\* A story of prd.json with its content fields and its runtime fields; a
\* key the dict does not have reads as None.
PrdStory(id, text, priority, acceptance_criteria, tasks, runtime) ==
    [id |-> id, title |-> text.title, description |-> text.description,
     priority |-> priority, acceptance_criteria |-> acceptance_criteria,
     independent_test |-> text.independent_test, tasks |-> tasks,
     status |-> runtime.status, attempts |-> runtime.attempts,
     last_error |-> runtime.last_error,
     last_updated_at |-> runtime.last_updated_at,
     max_attempts |-> runtime.max_attempts]

\* Mutant of NewRuntime: a new story starts as in progress.
NewRuntimeStarted ==
    [status |-> "in_progress", attempts |-> 1, last_error |-> None,
     last_updated_at |-> None, max_attempts |-> None]

\* "status": "todo", "attempts": 0, "last_error": None   (lines 512-514)
NewRuntime ==
    [status |-> "todo", attempts |-> 0, last_error |-> None,
     last_updated_at |-> None, max_attempts |-> None]

\* ac = user_story.acceptance_scenarios.copy(); if not ac: ... (lines 481-484)
AcceptanceCriteria(user_story) ==
    IF user_story.acceptance_scenarios = << >>
    THEN << "Verify " \o user_story.title >>
    ELSE user_story.acceptance_scenarios

\* The new story of lines 503-516.
NewStory(user_story, linked_task_ids) ==
    PrdStory(user_story.id, user_story, user_story.priority,
             AcceptanceCriteria(user_story), linked_task_ids, NewRuntime)

\* Mutant of MergeExisting: the story is rebuilt as a new one.
MergeExistingAsNew(existing, user_story, linked_task_ids) ==
    NewStory(user_story, linked_task_ids)

\* Lines 486-494: the content fields are overwritten, tasks only when some
\* task is linked; the other fields are left alone.
MergeExisting(existing, user_story, linked_task_ids) ==
    [existing EXCEPT
        !.title = user_story.title,
        !.description = user_story.description,
        !.priority = user_story.priority,
        !.acceptance_criteria = AcceptanceCriteria(user_story),
        !.independent_test = user_story.independent_test,
        !.tasks = IF linked_task_ids # << >> THEN linked_task_ids ELSE @]

\* existing_stories_map.get(id): the last story of the list with that id,
\* 0 when there is none.
ExistingIndex(stories, id) ==
    LET hits == {i \in 1..Len(stories) : stories[i].id = id}
    IN  IF hits = {} THEN 0 ELSE CHOOSE h \in hits : \A g \in hits : g <= h

\* re.match(r"^US\d+$", remaining_id)
IsUserStoryId(id) == id \in {"US1", "US2", "US3", "US10"}

\* priority_order.get(priority, 99)   (lines 527-529)
priority_order(priority) ==
    CASE priority = "P1" -> 1
      [] priority = "P2" -> 2
      [] priority = "P3" -> 3
      [] priority = "P4" -> 4
      [] priority = "P5" -> 5
      [] OTHER -> 99

\* Mutant of prd_sort_key: the priority is left out of the key.
prd_sort_key_by_id(s) == <<0, IdNum(s.id)>>

\* sort_key of generate_prd (lines 526-535)
prd_sort_key(s) == <<priority_order(s.priority), IdNum(s.id)>>

\* merged_stories.sort(key=sort_key): stable.
RECURSIVE InsertStory(_, _)
InsertStory(s, sorted) ==
    IF sorted = << >> THEN << s >>
    ELSE IF TupleLess(prd_sort_key(s), prd_sort_key(Head(sorted)))
         THEN << s >> \o sorted
         ELSE << Head(sorted) >> \o InsertStory(s, Tail(sorted))

RECURSIVE SortStories(_)
SortStories(stories) ==
    IF stories = << >> THEN << >>
    ELSE InsertStory(stories[Len(stories)],
                     SortStories(SubSeq(stories, 1, Len(stories) - 1)))

\* Lines 474-538: one story per extracted user story, then the remaining
\* stories whose id is not a user story id, then the sort.
MergeStories(stories, user_stories, tasks_by_story) ==
    LET from_spec ==
            [i \in 1..Len(user_stories) |->
                LET user_story == user_stories[i]
                    e == ExistingIndex(stories, user_story.id)
                    linked_task_ids == tasks_by_story[user_story.id]
                IN  IF e # 0
                    THEN MergeExisting(stories[e], user_story, linked_task_ids)
                    ELSE NewStory(user_story, linked_task_ids)]
        extracted == {user_stories[i].id : i \in 1..Len(user_stories)}
        Remains(s) == s.id \notin extracted /\ ~IsUserStoryId(s.id)
    IN  SortStories(from_spec \o SelectSeq(stories, Remains))

(***************************************************************************)
(* SpecMerge: generate_prd called on a drawn prd.json with a drawn         *)
(* extraction.                                                             *)
(***************************************************************************)
\* Runtime fields as the loop leaves them in prd.json.
ExistingRuntimes ==
    {NewRuntime,
     [status |-> "fail", attempts |-> MaxAttempts,
      last_error |-> Some("Tests failed"),
      last_updated_at |-> Some("2024-05-01T10:00:00"),
      max_attempts |-> Some(MaxCap)],
     [status |-> "pass", attempts |-> 1, last_error |-> None,
      last_updated_at |-> Some("2024-05-02T09:30:00"),
      max_attempts |-> None]}

\* Two user stories and two stories of the older task-based backlogs.
ExistingIds == {"US1", "US2", "T001", "T002"}

ExistingStories(id) ==
    {PrdStory(id, OldText, "P2", << "Given a user" >>, tasks, r) :
        tasks \in {<< >>, << "T001" >>}, r \in ExistingRuntimes}

ExistingBacklogs ==
    {<< >>}
    \cup {<< s >> : s \in UNION {ExistingStories(id) : id \in ExistingIds}}
    \cup UNION {{<< s, t >> : s \in ExistingStories(ids[1]),
                              t \in ExistingStories(ids[2])} :
                   ids \in {x \in ExistingIds \X ExistingIds : x[1] # x[2]}}

\* prd.json before generate_prd: written earlier, absent, not valid JSON or
\* without a 'stories' field.
ExistingFiles ==
    {File([stories |-> b, total_iterations |-> 0]) : b \in ExistingBacklogs}
    \cup {Broken(p) : p \in {"missing", "invalid JSON", "no stories"}}

ExtractedIds == {"US1", "US2"}

ExtractedStories(id) ==
    {UserStorySpec(id, t, p, ac) :
        t \in Texts, p \in Priorities, ac \in {<< >>, << "Given a member" >>}}

\* parse_user_stories_from_spec: the user stories of spec.md, possibly none.
Extractions ==
    {<< >>}
    \cup {<< u >> : u \in UNION {ExtractedStories(id) : id \in ExtractedIds}}
    \cup UNION {{<< u, v >> : u \in ExtractedStories(ids[1]),
                              v \in ExtractedStories(ids[2])} :
                   ids \in {x \in ExtractedIds \X ExtractedIds : x[1] # x[2]}}

\* tasks_by_story.get(id, []) for the tasks of tasks.md   (lines 463-469, 479)
TaskLinks == [ExtractedIds -> {<< >>, << "T002" >>}]

\* Lines 438-445 and 459-460: the data of prd.json, or an empty backlog.
\* Lines 442-443: the JSONDecodeError of the existing file is caught and logged.
ParseLogged(file) ==
    IF file.problem = "invalid JSON"
    THEN "Failed to parse existing PRD" ELSE ""

ExistingPrd(file) == IF file.valid THEN file.data ELSE EmptyPrd

InitMerge ==
    /\ disk \in ExistingFiles
    /\ prd = EmptyPrd
    /\ pre = ExistingPrd(disk).stories
    /\ args \in [user_stories : Extractions, tasks_by_story : TaskLinks]
    /\ pc = "generate"
    /\ story = 0
    /\ result = NoResult
    /\ iterations = 0
    /\ raised = FALSE
    /\ save_error = FALSE
    /\ ret = NoRet

\* Lines 438-545: load, merge, sort, write prd.json (a failing write raises).
generate_prd ==
    /\ pc = "generate"
    /\ prd' = [ExistingPrd(disk) EXCEPT
                  !.stories = MergeStories(@, args.user_stories,
                                           args.tasks_by_story)]
    /\ \E o \in _save_prd(disk, prd') :
         /\ disk' = o.disk
         /\ save_error' = ~o.ok
         /\ pc' = IF o.ok THEN "generated" ELSE "aborted"
         /\ ret' = [kind |-> IF o.ok THEN "generated" ELSE "exception",
                    logged |-> ParseLogged(disk)]
    /\ UNCHANGED <<args, story, result, iterations, raised, pre>>

NextMerge == generate_prd

SpecMerge == InitMerge /\ [][NextMerge]_vars

(***************************************************************************)
(* SpecRemerge: generate_prd called twice, with two extractions, on a      *)
(* prd.json the loop has worked on; pre keeps the stories as they were     *)
(* before the first call.                                                  *)
(***************************************************************************)
\* The user story `id` as spec.md states it.
RemergeUserStory(id) ==
    UserStorySpec(id, OldText, "P1", << "Given a user" >>)

\* spec.md with one or both of the user stories, or none.
RemergeExtractions ==
    {<< >>, << RemergeUserStory("US1") >>, << RemergeUserStory("US2") >>,
     << RemergeUserStory("US1"), RemergeUserStory("US2") >>}

RemergeStories(id) ==
    {PrdStory(id, OldText, "P1", << "Given a user" >>, << >>, r) :
        r \in ExistingRuntimes}

RemergeBacklogs ==
    {<< >>}
    \cup {<< s >> : s \in RemergeStories("US1") \cup RemergeStories("US2")}
    \cup {<< s, t >> : s \in RemergeStories("US1"), t \in RemergeStories("US2")}

InitRemerge ==
    /\ disk \in {File([stories |-> b, total_iterations |-> 0]) :
                    b \in RemergeBacklogs}
    /\ prd = EmptyPrd
    /\ pre = ExistingPrd(disk).stories
    /\ args \in [user_stories : RemergeExtractions,
                 tasks_by_story : {[id \in ExtractedIds |-> << >>]}]
    /\ pc = "generate"
    /\ story = 0
    /\ result = NoResult
    /\ iterations = 0
    /\ raised = FALSE
    /\ save_error = FALSE
    /\ ret = NoRet

\* generate_prd run again after spec.md was edited: lines 438-545 on the
\* prd.json the first call wrote.
generate_prd_again ==
    /\ pc = "generated"
    /\ \E e \in RemergeExtractions : args' = [args EXCEPT !.user_stories = e]
    /\ prd' = [ExistingPrd(disk) EXCEPT
                  !.stories = MergeStories(@, args'.user_stories,
                                           args'.tasks_by_story)]
    /\ \E o \in _save_prd(disk, prd') :
         /\ disk' = o.disk
         /\ save_error' = ~o.ok
         /\ pc' = IF o.ok THEN "regenerated" ELSE "aborted"
         /\ ret' = [kind |-> IF o.ok THEN "generated" ELSE "exception",
                    logged |-> ParseLogged(disk)]
    /\ UNCHANGED <<story, result, iterations, raised, pre>>

NextRemerge == generate_prd \/ generate_prd_again

SpecRemerge == InitRemerge /\ [][NextRemerge]_vars

(***************************************************************************)
(* The context limiter (src/ai_refactor/context_manager.py).  A text is    *)
(* its structure and the lengths of its parts, in characters: the limiter  *)
(* looks at nothing else (which markers the text holds, len, slices).      *)
(***************************************************************************)
Slack == 3                    \* drawn lengths: a threshold - Slack .. + Slack

CharsPerToken == 3            \* len(text) // 3
MinAvailable == 500           \* floor of available_tokens
SpecReserve == 200            \* available_tokens - story_tokens - 200
OldStoryMarkerLen == 26       \* "=== CURRENT USER STORY ==="
OldSpecMarkerLen == 34        \* "=== FULL SPECIFICATION CONTEXT ==="
TruncatedLen == 45            \* "\n\n[Context truncated due to length limits...]"
SpecTruncatedLen == 59        \* "\n\n[Specification context truncated ...]"
SpecOmittedLen == 54          \* "\n\n[Specification context omitted ...]"

\* The values of MODEL_CONTEXT_LIMITS.
MODEL_CONTEXT_LIMITS == {4096, 8192, 16384, 131072}
\* reserve_tokens: the callers pass 2000 (build_story_context) and 3000
\* (crew_agents); 4000 leaves less than the floor under the default limit.
ReserveTokens == {2000, 3000, 4000}

\* A text: `structure` says which markers it holds ("lean": the story marker;
\* "legacy": both old markers, story_part before the first old spec marker
\* and spec_part after it; "plain": neither), `marker` the truncation marker
\* the limiter appended, if any.
Text(structure, story_part, spec_part, marker) ==
    [structure |-> structure, story_part |-> story_part,
     spec_part |-> spec_part, marker |-> marker]

MarkerLen(marker) ==
    CASE marker = "none" -> 0
      [] marker = "context truncated" -> TruncatedLen
      [] marker = "specification truncated" -> SpecTruncatedLen
      [] marker = "specification omitted" -> SpecOmittedLen

\* len(text)
TextLen(t) ==
    t.story_part
      + (IF t.structure = "legacy" THEN OldSpecMarkerLen + t.spec_part ELSE 0)
      + MarkerLen(t.marker)

\* Lines 23-31.
estimate_tokens(text) == TextLen(text) \div CharsPerToken

\* Lines 88-91.
AvailableTokens(max_tokens, reserve_tokens) ==
    IF max_tokens - reserve_tokens < MinAvailable
    THEN MinAvailable ELSE max_tokens - reserve_tokens

Min(a, b) == IF a <= b THEN a ELSE b

\* text[:n] followed by a marker; the cut text holds no old spec marker.
Cut(n, marker) == Text("plain", n, 0, marker)

\* Lines 84-148.  available_tokens * 0.8 is a float: story_tokens is above
\* it when 10 * story_tokens > 8 * available_tokens, and
\* int(available_tokens * 0.8 * 3) is (24 * available_tokens) // 10.
truncate_context_intelligently(context, max_tokens, reserve_tokens) ==
    LET available_tokens == AvailableTokens(max_tokens, reserve_tokens)
        story_part == Text("plain", context.story_part, 0, "none")
        story_tokens == estimate_tokens(story_part)
        spec_available == available_tokens - story_tokens - SpecReserve
    IN  IF TextLen(context) = 0 THEN context
        ELSE IF estimate_tokens(context) <= available_tokens THEN context
        ELSE IF context.structure = "legacy"
        THEN IF 10 * story_tokens > 8 * available_tokens
             THEN Cut(Min(context.story_part,
                          (24 * available_tokens) \div 10),
                      "context truncated")
             ELSE IF spec_available > 0
             THEN \* story_part + old_spec_marker + "\n" + truncated_spec
                  Text("legacy", context.story_part,
                       1 + Min(context.spec_part,
                               spec_available * CharsPerToken),
                       "specification truncated")
             ELSE Text("plain", context.story_part, 0,
                       "specification omitted")
        ELSE Cut(Min(TextLen(context), available_tokens * CharsPerToken),
                 "context truncated")

(***************************************************************************)
(* SpecLimit: limit_context_for_model called on a drawn text for a drawn   *)
(* model limit and reserve.  The lengths are drawn around the thresholds   *)
(* of the limiter: the budget, 80% of it, and the budget less the reserve  *)
(* of the specification part.                                              *)
(***************************************************************************)
Around(n) == {m \in (n - Slack)..(n + Slack) : m >= 0}

StoryLens(available) ==
    {OldStoryMarkerLen}
      \cup Around((available - SpecReserve) * CharsPerToken)
      \cup Around((24 * available) \div 10)
      \cup Around(available * CharsPerToken)

SpecLens(available) == {0, 100} \cup Around(available * CharsPerToken)

Contexts(available) ==
    {Text("legacy", a, b, "none") :
        a \in StoryLens(available), b \in SpecLens(available)}
      \cup {Text(s, a, 0, "none") :
              s \in {"lean", "plain"},
              a \in {0} \cup Around(available * CharsPerToken)}

LimitCalls ==
    UNION {[max_tokens : {m}, reserve_tokens : {r},
            context : Contexts(AvailableTokens(m, r))] :
               m \in MODEL_CONTEXT_LIMITS, r \in ReserveTokens}

InitLimit ==
    /\ args \in LimitCalls
    /\ pc = "limit"
    /\ prd = EmptyPrd
    /\ disk = File(EmptyPrd)
    /\ pre = << >>
    /\ story = 0
    /\ result = NoResult
    /\ iterations = 0
    /\ raised = FALSE
    /\ save_error = FALSE
    /\ ret = NoRet

\* Lines 150-194: the limit of the model, then the truncation.
limit_context_for_model ==
    /\ pc = "limit"
    /\ pc' = "limited"
    /\ ret' = [kind |-> "text",
               text |-> truncate_context_intelligently(
                            args.context, args.max_tokens,
                            args.reserve_tokens)]
    /\ UNCHANGED <<prd, disk, args, story, result, iterations, raised,
                   save_error, pre>>

NextLimit == limit_context_for_model

SpecLimit == InitLimit /\ [][NextLimit]_vars

(***************************************************************************)
(* json.dump and json.loads on a backlog (ralph_adapter.py lines 24, 47).  *)
(* A JSON value is a token with its kind; the loop writes strings, ints    *)
(* and None into dicts and lists that came from json.loads.                *)
(***************************************************************************)
JsonNull == [json |-> "null"]
JsonNumber(n) == [json |-> "number", value |-> n]
JsonString(s) == [json |-> "string", value |-> s]
JsonArray(items) == [json |-> "array", items |-> items]
JsonObject(members) == [json |-> "object", members |-> members]

\* Mutant of DumpOptional: None is written as the string "None".
DumpOptionalAsText(o, kind) ==
    IF o = None THEN JsonString("None") ELSE [json |-> kind, value |-> Val(o)]

\* None is written as null, any other value as a token of its kind.
DumpOptional(o, kind) ==
    IF o = None THEN JsonNull ELSE [json |-> kind, value |-> Val(o)]

\* null is read as None.
LoadOptional(j) == IF j.json = "null" THEN None ELSE Some(j.value)

DumpStory(s) ==
    JsonObject([id |-> JsonString(s.id),
                priority |-> JsonString(s.priority),
                status |-> JsonString(s.status),
                attempts |-> JsonNumber(s.attempts),
                max_attempts |-> DumpOptional(s.max_attempts, "number"),
                last_error |-> DumpOptional(s.last_error, "string")])

LoadStory(j) ==
    Story(j.members.id.value, j.members.priority.value,
          j.members.status.value, j.members.attempts.value,
          LoadOptional(j.members.max_attempts),
          LoadOptional(j.members.last_error))

DumpMetadata(m) ==
    JsonObject([last_run_at |-> JsonString(m.last_run_at),
                last_run_mode |-> JsonString(m.last_run_mode),
                total_iterations |-> JsonNumber(m.total_iterations)])

LoadMetadata(j) ==
    [last_run_at |-> j.members.last_run_at.value,
     last_run_mode |-> j.members.last_run_mode.value,
     total_iterations |-> j.members.total_iterations.value]

\* json.dump(data, f, indent=2): the document written for a backlog; a key
\* the dict does not have (ralph_metadata before the first loop) is no
\* member of the object.
json_dump(data) ==
    JsonObject(
        [stories |-> JsonArray([i \in 1..Len(data.stories) |->
                                   DumpStory(data.stories[i])]),
         context |-> JsonObject([full_concatenation |->
                                   JsonString(data.context.full_concatenation)]),
         ralph_metadata |-> IF data.ralph_metadata = None THEN << >>
                            ELSE << DumpMetadata(Val(data.ralph_metadata)) >>])

\* json.loads(prd_path.read_text()): the dict read from a document.
json_loads(doc) ==
    [stories |-> [i \in 1..Len(doc.members.stories.items) |->
                     LoadStory(doc.members.stories.items[i])],
     context |-> [full_concatenation |->
                     doc.members.context.members.full_concatenation.value],
     ralph_metadata |-> IF doc.members.ralph_metadata = << >> THEN None
                        ELSE Some(LoadMetadata(doc.members.ralph_metadata[1]))]

(***************************************************************************)
(* SpecRound: a backlog as the loop holds it is saved with _save_prd and   *)
(* read back with load_prd.  The backlog came from load_prd, so it has     *)
(* 'stories' and 'context'.                                                *)
(***************************************************************************)
RoundStories(id) ==
    {Story(id, "P1", st, a, m, e) :
        st \in {"todo", "in_progress", "pass", "fail"},
        a \in 0..MaxAttempts,
        m \in {None} \cup {Some(c) : c \in 0..MaxCap},
        e \in {None, Some("Tests failed")}}

RoundSecond ==
    {Story("US2", "P2", "todo", 0, None, None),
     Story("US2", "P1", "fail", MaxAttempts, Some(MaxCap), Some("Tests failed"))}

RoundMetadata ==
    {None} \cup {Some([last_run_at |-> "2026-01-01T00:00:00+00:00Z",
                       last_run_mode |-> mode, total_iterations |-> n]) :
                    mode \in {"once", "loop"}, n \in 0..MaxIter}

RoundBacklogs ==
    [stories : {<< >>} \cup {<< s >> : s \in RoundStories("US1")}
                 \cup {<< s, t >> : s \in RoundStories("US1"), t \in RoundSecond},
     context : {[full_concatenation |-> "spec text"]},
     ralph_metadata : RoundMetadata]

InitRound ==
    /\ prd \in RoundBacklogs
    /\ disk = Broken("missing")
    /\ pc = "save"
    /\ args = NoArgs
    /\ pre = << >>
    /\ story = 0
    /\ result = NoResult
    /\ iterations = 0
    /\ raised = FALSE
    /\ save_error = FALSE
    /\ ret = NoRet

\* _save_prd(prd_path, prd): the document of the backlog is written, or the
\* call raises.
SaveRound ==
    /\ pc = "save"
    /\ \E o \in _save_prd(disk, json_dump(prd)) :
         /\ disk' = o.disk
         /\ save_error' = ~o.ok
         /\ pc' = IF o.ok THEN "saved" ELSE "aborted"
    /\ UNCHANGED <<prd, args, story, result, iterations, raised, pre, ret>>

\* load_prd(repo_root, feature_id): the dict read from prd.json.
LoadRound ==
    /\ pc = "saved"
    /\ LET loaded == load_prd(disk)
       IN  ret' = IF loaded.ok
                  THEN [kind |-> "loaded", data |-> json_loads(loaded.data)]
                  ELSE [kind |-> "exception", error |-> loaded.error]
    /\ pc' = "reloaded"
    /\ UNCHANGED <<prd, disk, args, story, result, iterations, raised,
                   save_error, pre>>

NextRound == SaveRound \/ LoadRound

SpecRound == InitRound /\ [][NextRound]_vars

(***************************************************************************)
(* The claims.  Eligibility and the attempt cap as the specification       *)
(* states them: the cap of a story is story.max_attempts if set, else the  *)
(* global cap; a story is eligible unless it is `pass` without force or    *)
(* its cap is defined and attempts >= cap.                                 *)
(***************************************************************************)
StatedCap(s, global) == IF s.max_attempts # None THEN s.max_attempts ELSE global

StatedEligible(s, global, force) ==
    /\ s.status = "pass" => force
    /\ StatedCap(s, global) # None => s.attempts < Val(StatedCap(s, global))

StatedRank(status) ==
    CASE status = "todo" -> 0 [] status = "in_progress" -> 1
      [] status = "fail" -> 2 [] status = "pass" -> 3

StatedNum(text) ==
    CASE text \in {"P1", "US1"} -> 1 [] text \in {"P2", "US2"} -> 2
      [] text = "US10" -> 10

\* s comes strictly before t in (status rank, priority, id number, attempts)
StatedBefore(s, t) ==
    LET a == <<StatedRank(s.status), StatedNum(s.priority), StatedNum(s.id), s.attempts>>
        b == <<StatedRank(t.status), StatedNum(t.priority), StatedNum(t.id), t.attempts>>
    IN  \E k \in 1..4 : a[k] < b[k] /\ \A j \in 1..(k - 1) : a[j] = b[j]

Returned == pc = "returned"
Selected == prd.stories[story]
AnyStatedEligible ==
    \E i \in 1..Len(prd.stories) :
        StatedEligible(prd.stories[i], args.max_attempts_per_story, args.force)

\* C1: a story returned by select_next_story is eligible: not `pass` unless
\* force, and its attempts strictly below its cap whenever the cap (the
\* story's max_attempts if set, else the global cap) is defined.
C1_ReturnedIsEligible ==
    (Returned /\ story # 0) =>
        StatedEligible(Selected, args.max_attempts_per_story, args.force)

\* C2: with a target id the result is None or the story with that id, and
\* that story only when it is eligible; never another story.
C2_TargetOrNone ==
    (Returned /\ args.target_story_id # None /\ story # 0) =>
        /\ Selected.id = Val(args.target_story_id)
        /\ StatedEligible(Selected, args.max_attempts_per_story, args.force)

\* C3: without a target the returned story is a minimum of the eligible set
\* in the order (status rank, priority, id number, attempts).
C3_ReturnedIsMinimum ==
    (Returned /\ args.target_story_id = None /\ story # 0) =>
        /\ StatedEligible(Selected, args.max_attempts_per_story, args.force)
        /\ \A i \in 1..Len(prd.stories) :
              StatedEligible(prd.stories[i], args.max_attempts_per_story, args.force)
                  => ~StatedBefore(prd.stories[i], Selected)

\* C4: without a target, None is returned if and only if no story of the
\* backlog is eligible.
C4_NoneIffNoneEligible ==
    (Returned /\ args.target_story_id = None) =>
        (story = 0 <=> ~AnyStatedEligible)

\* C5: whenever the pipeline is invoked, prd.json already holds the backlog
\* with the selected story in_progress and its attempts incremented.
C5_SavedBeforePipeline ==
    pc = "pipeline" =>
        /\ disk.valid
        /\ disk.data = prd
        /\ disk.data.stories[story].status = "in_progress"
        /\ disk.data.stories[story].attempts = pre[story].attempts + 1

C5_Witness ==
    /\ pc = "pipeline"
    /\ pre[story].status = "todo"
    /\ Len(prd.stories) = 2

\* C6: a completed iteration increases the selected story's attempts by
\* exactly 1.
C6_OneAttemptPerIteration ==
    pc = "iterated" => Selected.attempts = pre[story].attempts + 1

\* C7: after an iteration the story is `pass` if and only if the result is
\* SHIP with tests_ok true, and then last_error is None.
C7_PassIffShipAndTestsOk ==
    pc = "iterated" =>
        /\ Selected.status = "pass" <=>
              (result.decision = Some("SHIP") /\ result.tests_ok = Some(TRUE))
        /\ Selected.status = "pass" => Selected.last_error = None

C7_Witness ==
    /\ pc = "iterated"
    /\ Selected.status = "pass"
    /\ pre[story].status = "fail"
    /\ pre[story].last_error # None

\* C8: after an iteration whose result is not (SHIP and tests_ok) the story
\* is `fail` if its attempts have reached its cap (the story's max_attempts
\* if set, else the global cap) and `in_progress` otherwise.
C8_FailIffCapReached ==
    (pc = "iterated" /\ ~(result.decision = Some("SHIP") /\ result.tests_ok = Some(TRUE))) =>
        LET cap == StatedCap(Selected, args.max_attempts_per_story)
        IN  Selected.status =
                IF cap # None /\ Selected.attempts >= Val(cap) THEN "fail"
                ELSE "in_progress"

\* C9: the result {REVISE, tests_ok false, "off-by-one in loop bound"} for a
\* story at attempts=2 with max_attempts=3 leaves it in_progress with
\* last_error "Agent decision: REVISE - off-by-one in loop bound".  The
\* story is at 2 attempts when the result is processed, or when the
\* iteration starts.
C9_Scenario ==
    ( /\ pc = "iterated"
      /\ result = [decision |-> Some("REVISE"), tests_ok |-> Some(FALSE),
                   error |-> None,
                   critic_reason |-> Some("off-by-one in loop bound")]
      /\ pre[story].attempts \in {1, 2}
      /\ StatedCap(Selected, args.max_attempts_per_story) = Some(3) ) =>
        /\ Selected.status = "in_progress"
        /\ Selected.last_error =
               Some("Agent decision: REVISE - off-by-one in loop bound")

\* C10: an exception of the pipeline call becomes a result ERROR with
\* tests_ok false; the story gets its post-execution update, the backlog is
\* saved, an iteration result is returned and the loop goes on.
C10_AfterException ==
    (pc = "iterated" /\ raised) =>
        /\ result.decision = Some("ERROR")
        /\ result.tests_ok = Some(FALSE)
        /\ Selected.status \in {"in_progress", "fail"}
        /\ Selected.last_error = Some("Exception: boom")
        /\ save_error \/ disk = File(prd)
        /\ ret.kind = "iteration"
        /\ ret.result = result
        /\ ret.status = Selected.status

C10_GoesOn ==
    (pc = "iterated" /\ raised /\ pc' # "killed") =>
        /\ iterations' = iterations + 1
        /\ pc' = IF args.mode = "once" THEN "summary" ELSE "loop"

C10_ExceptionCaught ==
    /\ [](raised => (pc # "aborted" /\ C10_AfterException))
    /\ [][C10_GoesOn]_vars

C10_Witness ==
    /\ pc = "iterated"
    /\ raised
    /\ args.mode = "loop"
    /\ Selected.status = "fail"

\* The premise of C11 besides "each pipeline call returns": loop mode, and
\* max_iterations set or every story with a defined positive cap.
C11_Bounded ==
    /\ args.mode = "loop"
    /\ \/ args.max_iterations # None
       \/ \A i \in 1..Len(prd.stories) :
            LET cap == StatedCap(prd.stories[i], args.max_attempts_per_story)
            IN  cap # None /\ Val(cap) > 0

\* C11: in loop mode, with max_iterations set or every story under a defined
\* positive cap, run_ralph_loop reaches its summary whatever the pipeline
\* returns and whether force is set or not.
C11_ReachesSummary == (pc = "loop" /\ C11_Bounded) ~> (pc = "summary")

\* The run was killed between the entry save and the post-execution save.
C12_KilledInFlight == pc = "killed" /\ ret.at \in {"pipeline", "update"}

\* C12: after a kill between the entry save and the post-execution save,
\* prd.json shows the story in flight as in_progress with its attempts
\* incremented, every other story as it was before the iteration, and a
\* restart with the same arguments finds that story eligible unless its
\* attempts have reached its cap.
C12_ResumableAfterKill ==
    C12_KilledInFlight =>
        /\ disk.valid
        /\ Len(disk.data.stories) = Len(pre)
        /\ \A j \in 1..Len(pre) :
             disk.data.stories[j] =
                IF j = story
                THEN [pre[j] EXCEPT !.status = "in_progress",
                                    !.attempts = pre[j].attempts + 1]
                ELSE pre[j]
        /\ LET s == disk.data.stories[story]
               cap == StatedCap(s, args.max_attempts_per_story)
           IN  (cap = None \/ s.attempts < Val(cap)) =>
                   Eligible(s, args.max_attempts_per_story, args.force)

C12_Witness ==
    /\ C12_KilledInFlight
    /\ Len(pre) > 1
    /\ args.max_attempts_per_story # None
    /\ Eligible(disk.data.stories[story], args.max_attempts_per_story, args.force)

\* C13, first half: without force and without a target, select_next_story
\* never returns a story whose attempts equal its effective max_attempts.
C13_AtCapNotReturned ==
    (Returned /\ ~args.force /\ args.target_story_id = None /\ story # 0) =>
        LET cap == StatedCap(Selected, args.max_attempts_per_story)
        IN  cap # None => Selected.attempts # Val(cap)

\* C13, second half: a story one attempt below its cap is returned when it
\* is the only story that is otherwise eligible (not pass, or force).
C13_BelowCapReturned ==
    (Returned /\ args.target_story_id = None) =>
        \A i \in 1..Len(prd.stories) :
            LET s == prd.stories[i]
                cap == StatedCap(s, args.max_attempts_per_story)
            IN  (/\ cap # None
                 /\ s.attempts = Val(cap) - 1
                 /\ s.status = "pass" => args.force
                 /\ \A j \in 1..Len(prd.stories) :
                      j # i => ~StatedEligible(prd.stories[j],
                                   args.max_attempts_per_story, args.force))
                => story = i

\* C13: the eligibility boundary: attempts = max_attempts is never returned
\* (no force, no target); attempts = max_attempts - 1 is returned when it is
\* the only story otherwise eligible.
C13_Boundary == C13_AtCapNotReturned /\ C13_BelowCapReturned

\* C14: in one call of run_ralph_loop with max_iterations = N the count of
\* iterations never exceeds N, and no story is selected or executed once the
\* count has reached N.
C14_IterationsWithinCap ==
    (pc \in Running \cup {"done"} /\ args.max_iterations # None) =>
        /\ iterations <= Val(args.max_iterations)
        /\ pc \in {"entry", "pipeline", "update", "iterated"}
             => iterations < Val(args.max_iterations)

C14_Witness ==
    /\ pc = "done"
    /\ args.mode = "loop"
    /\ args.max_iterations = Some(MaxIter)
    /\ iterations = MaxIter
    /\ select_next_story(prd.stories, args.max_attempts_per_story,
                         args.target_story_id, args.force) # 0

\* C15: in single-shot mode run_ralph_loop executes exactly one iteration
\* and exits, whatever max_iterations is.  Stated for the runs that have a
\* story to execute: the backlog loaded, the selection with the run's
\* arguments returns a story, and the run ended by its summary.
C15_OnceRunsOne ==
    (/\ pc = "done"
     /\ args.mode = "once"
     /\ ret.kind = "summary"
     /\ iterations = 0)
    => select_next_story(prd.stories, args.max_attempts_per_story,
                         args.target_story_id, args.force) = 0

\* The merged backlog generate_prd built and wrote.
Generated == pc = "generated"
ExtractedIdsNow == {args.user_stories[i].id : i \in 1..Len(args.user_stories)}
MergedWithId(id) == {j \in 1..Len(prd.stories) : prd.stories[j].id = id}

\* C16: a story present both in prd.json and in the extraction keeps its
\* runtime fields status, attempts, last_error, last_updated_at and
\* max_attempts through generate_prd, in memory and in the written file.
C16_RuntimeFieldsKept ==
    Generated =>
        /\ disk = File(prd)
        /\ \A i \in 1..Len(pre) :
             pre[i].id \in ExtractedIdsNow =>
                /\ Cardinality(MergedWithId(pre[i].id)) = 1
                /\ \A j \in MergedWithId(pre[i].id) :
                     /\ prd.stories[j].status = pre[i].status
                     /\ prd.stories[j].attempts = pre[i].attempts
                     /\ prd.stories[j].last_error = pre[i].last_error
                     /\ prd.stories[j].last_updated_at = pre[i].last_updated_at
                     /\ prd.stories[j].max_attempts = pre[i].max_attempts

C16_Witness ==
    /\ Generated
    /\ \E i \in 1..Len(pre), j \in 1..Len(prd.stories) :
         /\ pre[i].id \in ExtractedIdsNow
         /\ prd.stories[j].id = pre[i].id
         /\ pre[i].status = "fail"
         /\ pre[i].max_attempts # None
         /\ prd.stories[j].title # pre[i].title

\* C17: after the merge every extracted story has title, description,
\* priority, acceptance_criteria and tasks equal to the extracted values,
\* also when the extraction links no task to a story that had tasks.
C17_ContentFieldsFresh ==
    Generated =>
        \A i \in 1..Len(args.user_stories) :
            LET u == args.user_stories[i]
            IN  /\ MergedWithId(u.id) # {}
                /\ \A j \in MergedWithId(u.id) :
                     /\ prd.stories[j].title = u.title
                     /\ prd.stories[j].description = u.description
                     /\ prd.stories[j].priority = u.priority
                     /\ prd.stories[j].acceptance_criteria = AcceptanceCriteria(u)
                     /\ prd.stories[j].tasks = args.tasks_by_story[u.id]

\* C18: every story id of the prd.json read by generate_prd is an id of the
\* merged backlog, also when the extraction no longer produces it.
C18_NoIdDeleted ==
    Generated =>
        \A i \in 1..Len(pre) : MergedWithId(pre[i].id) # {}

\* The post-execution save was tried: the iteration returns with the story
\* updated in memory, whether the write failed or not.
C19_AfterPostSave ==
    (pc = "update" /\ pc' \notin {"update", "killed"}) =>
        /\ pc' = "iterated"
        /\ ret'.kind = "iteration"
        /\ prd'.stories[story] =
              update_story_after_attempt(prd.stories[story], result,
                  EffectiveCap(prd.stories[story], args.max_attempts_per_story))

\* After a failed post-execution save the loop goes on with the backlog it
\* has in memory.
C19_LoopGoesOn ==
    (pc = "iterated" /\ save_error /\ pc' \notin {"iterated", "killed"}) =>
        /\ pc' \in {"loop", "summary"}
        /\ prd'.stories = prd.stories

\* A selection reads the stories in memory, not prd.json.
C19_SelectsFromMemory ==
    (pc = "loop" /\ pc' = "entry") =>
        /\ story' = select_next_story(prd.stories, args.max_attempts_per_story,
                                      args.target_story_id, args.force)
        /\ story' # 0

\* The final save was tried: the summary of the stories in memory is
\* returned, whether the write failed or not.
C19_AfterFinalSave ==
    (pc = "summary" /\ pc' \notin {"summary", "killed"}) =>
        /\ pc' = "done"
        /\ ret' = Summary(prd.stories, iterations)

\* C19: a failure of the post-execution save or of the final save does not
\* abort run_ralph_loop: the loop continues with the story as updated in
\* memory, later selections read that state, and the summary is returned.
C19_SaveFailureLogged ==
    /\ [][C19_AfterPostSave]_vars
    /\ [][C19_LoopGoesOn]_vars
    /\ [][C19_SelectsFromMemory]_vars
    /\ [][C19_AfterFinalSave]_vars

\* A story is selected again from memory after its post-execution save
\* failed: prd.json does not hold the stories the selection read.
C19_Witness ==
    /\ pc = "entry"
    /\ iterations > 0
    /\ disk.data.stories # prd.stories
    /\ prd.stories[story].status = "in_progress"
    /\ prd.stories[story].attempts > 0

\* C20: when prd.json is missing, not valid JSON or lacks 'stories' or
\* 'context', run_ralph_loop does not start the loop: no story is selected,
\* prd.json is not written, and the summary returned has an error, zero
\* iterations and zero story counts.
C20_InitFailure ==
    [][(pc \in Stopped /\ disk.problem \in Problems) =>
          /\ pc' = "done"
          /\ story' = 0
          /\ disk' = disk
          /\ ret'.kind = "error"
          /\ ret'.error # ""
          /\ ret'.iterations = 0
          /\ ret'.stories_total = 0
          /\ ret'.stories_pass = 0
          /\ ret'.stories_fail = 0]_vars

C20_Witness ==
    /\ pc = "done"
    /\ ret.kind = "error"
    /\ disk.problem = "no context"

\* C21: the exit code of the CLI is non-zero if a story ended in `fail` or
\* the initialization failed, and zero otherwise.
C21_ExitCode ==
    pc = "exited" =>
        (ret.code # 0 <=> (\/ CountStatus(prd.stories, "fail") > 0
                           \/ ret.summary.kind = "error"))

\* C22: total_iterations is cumulative across runs: a run that loads
\* total_iterations = n and executes k iterations leaves n + k.  Stated step
\* by step: the load keeps the persisted count, every counted iteration adds
\* one to it, and the final save writes it.
C22_CumulativeCount ==
    /\ [][(pc \in Stopped /\ pc' = "loop") =>
             prd'.total_iterations = disk.data.total_iterations]_vars
    /\ [][(pc = "iterated" /\ pc' \in {"loop", "summary"}) =>
             prd'.total_iterations = prd.total_iterations + 1]_vars
    /\ [][(pc = "summary" /\ pc' = "done" /\ ~save_error') =>
             disk'.data.total_iterations = prd.total_iterations]_vars

\* run_ralph_loop returned its summary and the final save wrote prd.json.
C23_Returned == pc = "done" /\ ret.kind = "summary" /\ ~save_error

\* C23: the summary counts are those of the backlog as last saved: total,
\* pass, fail, todo and in_progress are the numbers of stories with that
\* status in prd.json, however the loop stopped.
C23_SummaryOfSavedBacklog ==
    C23_Returned =>
        /\ disk.valid
        /\ ret.stories_total = Len(disk.data.stories)
        /\ \A st \in Statuses :
             Cardinality({i \in 1..Len(disk.data.stories) :
                             disk.data.stories[i].status = st})
               = CASE st = "pass" -> ret.stories_pass
                   [] st = "fail" -> ret.stories_fail
                   [] st = "todo" -> ret.stories_todo
                   [] st = "in_progress" -> ret.stories_in_progress

\* A run that executed an iteration and left one story in progress and one
\* not started.
C23_Witness ==
    /\ C23_Returned
    /\ iterations > 0
    /\ ret.stories_in_progress > 0
    /\ ret.stories_todo > 0

\* C24: when the attempt is not a success, last_error is the result's
\* explicit error if present; else "Agent decision: <decision>", followed by
\* " - <critic_reason>" when a reason is given, when the decision is not
\* SHIP; else "Tests failed" when the tests did not pass; else "Unknown
\* error".
C24_LastErrorPrecedence ==
    (pc = "iterated"
       /\ ~(result.decision = Some("SHIP") /\ result.tests_ok = Some(TRUE))) =>
        LET decision == IF result.decision = None THEN "UNKNOWN"
                        ELSE Val(result.decision)
        IN  Selected.last_error = Some(
              CASE result.error # None -> Val(result.error)
                [] result.error = None /\ result.decision # Some("SHIP")
                     /\ result.critic_reason # None ->
                       "Agent decision: " \o decision \o " - "
                           \o Val(result.critic_reason)
                [] result.error = None /\ result.decision # Some("SHIP")
                     /\ result.critic_reason = None ->
                       "Agent decision: " \o decision
                [] result.error = None /\ result.decision = Some("SHIP")
                     /\ result.tests_ok = Some(FALSE) -> "Tests failed"
                [] OTHER -> "Unknown error")

\* An explicit error wins over a decision with a reviewer's reason.
C24_Witness ==
    /\ pc = "iterated"
    /\ result.error # None
    /\ result.decision = Some("REVISE")
    /\ result.critic_reason # None
    /\ Selected.last_error = result.error

C26_Before(a, b) ==
    \/ priority_order(a.priority) < priority_order(b.priority)
    \/ /\ priority_order(a.priority) = priority_order(b.priority)
       /\ IdNum(a.id) < IdNum(b.id)

C26_SameKey(a, b) ==
    /\ priority_order(a.priority) = priority_order(b.priority)
    /\ IdNum(a.id) = IdNum(b.id)

\* C26: after generate_prd, of any two adjacent stories of prd.json the
\* earlier one has a lower priority number, or the same priority number and
\* a lower numeric id.
C26_StrictlySorted ==
    Generated =>
        \A i \in 1..(Len(disk.data.stories) - 1) :
            C26_Before(disk.data.stories[i], disk.data.stories[i + 1])

\* C26 as it holds: of two adjacent stories the earlier one is before the
\* later one in (priority number, numeric id), or both have the same
\* priority number and numeric id and were in this order in the prd.json
\* that generate_prd read.
C26_SortedStable ==
    Generated =>
        \A i \in 1..(Len(disk.data.stories) - 1) :
            LET a == disk.data.stories[i]
                b == disk.data.stories[i + 1]
            IN  \/ C26_Before(a, b)
                \/ /\ C26_SameKey(a, b)
                   /\ ExistingIndex(pre, a.id) # 0
                   /\ ExistingIndex(pre, a.id) < ExistingIndex(pre, b.id)

\* The sort moved a story: the second extracted story is written first,
\* ahead of a story with a lower numeric id.
C26_Witness ==
    /\ Generated
    /\ Len(args.user_stories) > 1
    /\ Len(disk.data.stories) > 2
    /\ disk.data.stories[1].id = args.user_stories[2].id
    /\ IdNum(disk.data.stories[1].id) > IdNum(disk.data.stories[2].id)

\* The subprocess of this iteration runs longer than the ceiling.
C27_TimedOut == args.aider.how = "runs" /\ args.aider.duration > AiderTimeout

C28_OverBudget ==
    estimate_tokens(args.context)
        > AvailableTokens(args.max_tokens, args.reserve_tokens)

C28_MarkedWithinBudget ==
    (pc = "limited" /\ C28_OverBudget) =>
        /\ ret.text.marker # "none"
        /\ estimate_tokens(ret.text)
             <= AvailableTokens(args.max_tokens, args.reserve_tokens)

C30_InvalidJsonAsEmpty ==
    [][(pc = "generate" /\ disk.problem = "invalid JSON") =>
          /\ pc' = "aborted" => save_error'
          /\ pc' \in {"generated", "aborted"}
          /\ ret'.logged = "Failed to parse existing PRD"
          /\ Len(prd'.stories) = Len(args.user_stories)
          /\ \A i \in 1..Len(args.user_stories) :
               \E j \in 1..Len(prd'.stories) :
                  /\ prd'.stories[j].id = args.user_stories[i].id
                  /\ prd'.stories[j].title = args.user_stories[i].title
                  /\ prd'.stories[j].status = "todo"
                  /\ prd'.stories[j].attempts = 0
                  /\ prd'.stories[j].last_error = None
          /\ pc' = "generated" => disk' = File(prd')]_vars

\* generate_prd found a prd.json that does not parse and wrote a new one
\* with two extracted stories.
C30_Witness ==
    /\ pc = "generated"
    /\ ret.logged = "Failed to parse existing PRD"
    /\ Len(args.user_stories) = 2
    /\ Len(disk.data.stories) = 2
    /\ disk.data.stories[1].status = "todo"

\* Some story of the backlog is `todo` and eligible as the specification
\* states eligibility.
C31_EligibleTodo(stories) ==
    \E i \in 1..Len(stories) :
        /\ stories[i].status = "todo"
        /\ StatedEligible(stories[i], args.max_attempts_per_story, args.force)

\* C31: in a run without an explicit target, fresh work comes before
\* retries: while some eligible story is `todo`, the story the loop selects
\* is a `todo` story that has had no attempt, so no story is executed a
\* second time before every eligible `todo` story had its first attempt.
C31_FreshBeforeRetries ==
    [][(pc = "loop" /\ pc' = "entry" /\ args.target_story_id = None
          /\ C31_EligibleTodo(prd.stories)) =>
             /\ prd.stories[story'].status = "todo"
             /\ prd.stories[story'].attempts = 0]_vars

\* The second iteration of a loop run takes the story still `todo` while the
\* first story, already attempted in this run, waits for its retry.
C31_Witness ==
    /\ pc = "entry"
    /\ args.mode = "loop"
    /\ args.target_story_id = None
    /\ iterations = 1
    /\ story = 2
    /\ prd.stories[2].status = "todo"
    /\ prd.stories[1].status = "in_progress"
    /\ prd.stories[1].attempts > 0
    /\ Eligible(prd.stories[1], args.max_attempts_per_story, args.force)

\* C32: a failure of the backlog write at iteration entry (the save made
\* right after marking the story in_progress) does not escape
\* run_ralph_iteration and does not abort run_ralph_loop: the iteration goes
\* on to return a result and the loop is still running.
C32_EntrySaveContained ==
    [][(pc = "entry" /\ save_error') =>
          /\ pc' \in Running
          /\ ret'.kind # "exception"]_vars

\* C33: a story whose effective attempt cap is defined as 0 (its own
\* max_attempts is 0, or it has none and the global cap is 0) is never
\* selected, and a story-level max_attempts of 0 counts as set: the global
\* cap does not replace it.
C33_ZeroCapNeverSelected ==
    pc = "returned" =>
        /\ story # 0 =>
             StatedCap(prd.stories[story], args.max_attempts_per_story) # Some(0)
        /\ \A i \in 1..Len(prd.stories) :
             prd.stories[i].max_attempts = Some(0) =>
                 EffectiveCap(prd.stories[i], args.max_attempts_per_story) = Some(0)

\* The review agent was called on a non-empty diff and raised.
C34_ReviewRaised ==
    /\ args.once.diff = "changes"
    /\ args.once.use_agents
    /\ args.once.review = "raises"

\* C34: when the review agent raises while a non-empty diff exists, run_once
\* takes the decision SHIP with no critic reason; if the tests passed the
\* result is SHIP with tests_ok true, the changes are committed when
\* auto_commit is set (and the commit itself does not fail), and the story is
\* marked `pass` with no review having succeeded.
C34_ReviewFailureShips ==
    (pc \in {"update", "iterated"} /\ C34_ReviewRaised) =>
        /\ result.decision = Some("SHIP")
        /\ result.critic_reason = None
        /\ TestStage(args.once) =>
             /\ result.tests_ok = Some(TRUE)
             /\ pc = "update" =>
                  (ret.committed <=> (args.once.auto_commit
                                        /\ args.once.commit = "ok"))
             /\ pc = "iterated" =>
                  /\ prd.stories[story].status = "pass"
                  /\ prd.stories[story].last_error = None

\* A story was marked `pass` after a review that raised, the tests having
\* run and passed and the changes having been committed.
C34_Witness ==
    /\ pc = "iterated"
    /\ C34_ReviewRaised
    /\ ~args.once.skip_tests
    /\ args.once.tests = "pass"
    /\ args.once.auto_commit
    /\ args.once.commit = "ok"
    /\ prd.stories[story].status = "pass"
    /\ pre[story].status = "todo"

\* C39: a pipeline result that carries a non-empty error (for example SHIP
\* with tests passed but a failed auto-commit) never leaves the story `pass`
\* with last_error cleared: the story's last_error records the error.
C39_ErrorRecorded ==
    (pc = "iterated" /\ NonEmpty(result.error)) =>
        /\ prd.stories[story].last_error = result.error
        /\ prd.stories[story].status # "pass"

\* The stories `after` are the stories `before` except for the runtime
\* fields of story `i`: same length and order, every other story equal, and
\* story i with its id, priority and max_attempts.
C35_OnlyRuntimeOf(i, before, after) ==
    /\ Len(after) = Len(before)
    /\ \A j \in 1..Len(before) :
         IF j = i
         THEN /\ after[j].id = before[j].id
              /\ after[j].priority = before[j].priority
              /\ after[j].max_attempts = before[j].max_attempts
         ELSE after[j] = before[j]

\* C35: an iteration changes only the runtime fields of the selected story:
\* every other story, the selected story's content fields and the order of
\* the stories are as they were at the selection, and select_next_story
\* changes nothing of the backlog.
C35_IterationFrame ==
    /\ [](pc \in {"pipeline", "update", "iterated"} =>
              C35_OnlyRuntimeOf(story, pre, prd.stories))
    /\ [][(pc = "loop" /\ pc' # "killed") => prd' = prd]_vars

\* The second story of a backlog went through an iteration; the first one
\* is as it was.
C35_Witness ==
    /\ pc = "iterated"
    /\ Len(prd.stories) = 2
    /\ story = 2
    /\ prd.stories[2].status # pre[2].status
    /\ prd.stories[2].attempts # pre[2].attempts
    /\ prd.stories[1] = pre[1]
    /\ prd.stories[1].attempts > 0

\* C36: in every state the loop reaches from a backlog in which each story's
\* attempts are at most its effective cap, each capped story's attempts are
\* at most that cap.
C36_AttemptsWithinCap ==
    \A i \in 1..Len(prd.stories) :
        LET cap == StatedCap(prd.stories[i], args.max_attempts_per_story)
        IN  cap # None => prd.stories[i].attempts <= Val(cap)

\* C37: when run_ralph_loop (no target, force false) stops because the
\* scheduler returned no story, every story of the final backlog is `pass`
\* or has attempts at or above its effective cap: no story that is `todo` or
\* `in_progress` and under its cap, or without a cap, remains.
C37_NothingLeftToDo ==
    [][(pc = "loop" /\ pc' = "summary"
          /\ ~IterationCapReached(args.max_iterations, iterations)
          /\ args.target_story_id = None /\ ~args.force) =>
             \A i \in 1..Len(prd'.stories) :
                 LET s == prd'.stories[i]
                     cap == StatedCap(s, args.max_attempts_per_story)
                 IN  \/ s.status = "pass"
                     \/ cap # None /\ s.attempts >= Val(cap)]_vars

\* The loop stopped for want of a story with one story passed and the other
\* at its cap, and returned its summary.
C37_Witness ==
    /\ pc = "done"
    /\ ret.kind = "summary"
    /\ args.mode = "loop"
    /\ args.target_story_id = None
    /\ ~args.force
    /\ ~IterationCapReached(args.max_iterations, iterations)
    /\ Len(prd.stories) = 2
    /\ prd.stories[1].status = "pass"
    /\ prd.stories[2].status = "fail"
    /\ select_next_story(prd.stories, args.max_attempts_per_story,
                         args.target_story_id, args.force) = 0

\* C38: with force false, `pass` is absorbing: a story that is `pass` is not
\* selected again, and its status, attempts and last_error do not change in
\* any later iteration of the run (in memory) or in any later run (in
\* prd.json, which a later run loads).
C38_PassAbsorbing ==
    /\ [][(pc = "loop" /\ pc' = "entry" /\ ~args.force) =>
             prd.stories[story'].status # "pass"]_vars
    /\ [][(pc \in Running /\ pc' \in Running \cup {"done"} /\ ~args.force) =>
             \A i \in 1..Len(prd.stories) :
                 prd.stories[i].status = "pass" =>
                     prd'.stories[i] = prd.stories[i]]_vars
    /\ [][(~args.force /\ disk.valid /\ disk'.valid) =>
             \A i \in 1..Len(disk.data.stories) :
                 disk.data.stories[i].status = "pass" =>
                     disk'.data.stories[i] = disk.data.stories[i]]_vars
    /\ [][(pc \in Stopped /\ pc' = "loop") => prd'.stories = disk.data.stories]_vars

\* A later run without force works on the second story while the first one,
\* passed in an earlier run, is `pass` in memory and in prd.json.
C38_Witness ==
    /\ pc = "iterated"
    /\ ~args.force
    /\ iterations = 0
    /\ story = 2
    /\ pre[1].status = "pass"
    /\ prd.stories[1] = pre[1]
    /\ disk.valid
    /\ disk.data.stories[1] = pre[1]
    /\ disk.data.stories[2] # pre[2]

\* A story is `todo` only if it has no attempts.
C40_TodoUnattempted(stories) ==
    \A i \in 1..Len(stories) :
        stories[i].status = "todo" => stories[i].attempts = 0

\* The story of `after` with the id of a story of `before` has at least its
\* attempts, and is not `todo` if that one was not.
C40_NotBack(before, after) ==
    \A i \in 1..Len(before) : \A j \in 1..Len(after) :
        after[j].id = before[i].id =>
            /\ after[j].attempts >= before[i].attempts
            /\ before[i].status # "todo" => after[j].status # "todo"

\* C40: in every state reached from a generated backlog by loop iterations,
\* interruptions and re-extractions, a story is `todo` only if its attempts
\* are 0: a story that has been started never returns to `todo` and its
\* attempts never decrease.  Here: through two re-extractions of a prd.json
\* the loop has worked on.
C40_StartedNeverTodo ==
    /\ C40_TodoUnattempted(prd.stories)
    /\ disk.valid => C40_TodoUnattempted(disk.data.stories)
    /\ pc \in {"generated", "regenerated"} => C40_NotBack(pre, prd.stories)

(***************************************************************************)
(* The selection and cap claims away from a cap of 0: with no story cap    *)
(* and no global cap equal to 0, the code's truthiness test and the stated *)
(* "cap is defined" agree, and C1-C4 (SpecSelect) and C8 (SpecIter) hold.  *)
(***************************************************************************)
NoZeroCap ==
    /\ args.max_attempts_per_story # Some(0)
    /\ \A i \in 1..Len(prd.stories) : prd.stories[i].max_attempts # Some(0)

SelectionExceptZeroCap ==
    NoZeroCap => /\ C1_ReturnedIsEligible
                 /\ C2_TargetOrNone
                 /\ C3_ReturnedIsMinimum
                 /\ C4_NoneIffNoneEligible

StatusExceptZeroCap == NoZeroCap => C8_FailIffCapReached

\* The loop of C11 does end in every such run: by its summary, or by the
\* exception of a failed entry save, which leaves run_ralph_loop.
C11_EndsOrAborts ==
    (pc = "loop" /\ C11_Bounded) ~> (pc = "summary" \/ pc = "aborted")

\* The boundary of C13 holds away from a cap of 0.
BoundaryExceptZeroCap == NoZeroCap => C13_Boundary

\* Single-shot mode runs at most one iteration, and one when max_iterations
\* is not 0 and a story is selected.
OnceAtMostOne ==
    (pc \in Running \cup {"done"} /\ args.mode = "once") =>
        /\ iterations <= 1
        /\ (pc = "done" /\ ret.kind = "summary" /\ iterations = 0
              /\ args.max_iterations # Some(0))
             => select_next_story(prd.stories, args.max_attempts_per_story,
                                  args.target_story_id, args.force) = 0

\* The content fields of C17 are fresh except the tasks of a story that had
\* tasks and gets none linked: those are kept.
ContentExceptUnlinked ==
    Generated =>
        \A i \in 1..Len(args.user_stories) :
            LET u == args.user_stories[i]
                e == ExistingIndex(pre, u.id)
            IN  /\ MergedWithId(u.id) # {}
                /\ \A j \in MergedWithId(u.id) :
                     /\ prd.stories[j].title = u.title
                     /\ prd.stories[j].description = u.description
                     /\ prd.stories[j].priority = u.priority
                     /\ prd.stories[j].acceptance_criteria = AcceptanceCriteria(u)
                     /\ prd.stories[j].tasks =
                            IF e # 0 /\ args.tasks_by_story[u.id] = << >>
                            THEN pre[e].tasks
                            ELSE args.tasks_by_story[u.id]

\* The ids generate_prd keeps: the extracted ones and those that are not
\* user story ids; a user story the extraction no longer has is dropped.
HistoryExceptUserStories ==
    Generated =>
        \A i \in 1..Len(pre) :
            MergedWithId(pre[i].id) # {}
                <=> (pre[i].id \in ExtractedIdsNow \/ ~IsUserStoryId(pre[i].id))

\* The exit code tells whether a story ended in `fail`; a failed
\* initialization exits with 0.
ExitCodeIsFailCount ==
    pc = "exited" =>
        /\ ret.code \in {0, 1}
        /\ ret.code = 1 <=> CountStatus(prd.stories, "fail") > 0
        /\ ret.summary.kind = "error" => ret.code = 0

\* total_iterations is the count of the current run: once an iteration has
\* been counted, the persisted count of earlier runs is overwritten.
TotalIsRunCount ==
    (pc \in Running \cup {"done", "exited"} /\ iterations > 0) =>
        prd.total_iterations = iterations

\* What the limiter does keep: an over-budget text comes back marked, within
\* the budget on the three paths of the legacy structure, and at most the
\* length of the marker above it after the plain cut.
MarkedNearBudget ==
    (pc = "limited" /\ C28_OverBudget) =>
        /\ ret.text.marker # "none"
        /\ ret.text.marker # "context truncated" \/ args.context.structure = "legacy"
             => estimate_tokens(ret.text)
                  <= AvailableTokens(args.max_tokens, args.reserve_tokens)
        /\ estimate_tokens(ret.text)
             <= AvailableTokens(args.max_tokens, args.reserve_tokens)
                  + TruncatedLen \div CharsPerToken

\* The error of a result is recorded as last_error unless the result is SHIP
\* with tests passed: then the story is `pass` and the error is dropped.
ErrorRecordedUnlessSuccess ==
    (pc = "iterated" /\ NonEmpty(result.error)) =>
        IF IsSuccess(result)
        THEN /\ prd.stories[story].status = "pass"
             /\ prd.stories[story].last_error = None
        ELSE /\ prd.stories[story].status # "pass"
             /\ prd.stories[story].last_error = result.error

\* Away from a cap of 0 the attempts of a capped story pass its cap by one
\* at most: a story one attempt below its cap is selected and the iteration
\* counts two attempts.
AttemptsWithinCapPlusOne ==
    NoZeroCap =>
        \A i \in 1..Len(prd.stories) :
            LET cap == StatedCap(prd.stories[i], args.max_attempts_per_story)
            IN  cap # None => prd.stories[i].attempts <= Val(cap) + 1

\* What holds of C40: in the loop (runs, kills, failed saves) a story is
\* `todo` only with no attempts, in memory and in prd.json, and no step takes
\* a story of prd.json back to `todo` or lowers its attempts.
LoopNeverBackToTodo ==
    /\ [](/\ C40_TodoUnattempted(prd.stories)
          /\ disk.valid => C40_TodoUnattempted(disk.data.stories))
    /\ [][(disk.valid /\ disk'.valid) =>
             C40_NotBack(disk.data.stories, disk'.data.stories)]_vars

\* One re-extraction keeps what C40 says of the stories it keeps.
MergeNeverBackToTodo ==
    Generated => /\ C40_TodoUnattempted(prd.stories)
                 /\ C40_NotBack(pre, prd.stories)

====
